---- MODULE Spec2Model ----
(***************************************************************************)
(* The agent graph of agents.py (router -> one agent node ->               *)
(* final_translator -> END) and the chat loop of Streamlit_UI.py that      *)
(* invokes it.                                                             *)
(*                                                                         *)
(* Text that the code inspects character by character (the question, the   *)
(* classification label, the generated SQL) is a sequence of Unicode code  *)
(* points.  Text that the code only stores and hands on (answers) is an    *)
(* opaque string, "" being the empty string.  A dictionary key that may be *)
(* absent is a sequence of length at most one: << >> is "key not set",     *)
(* <<v>> is "key set to v".                                                *)
(***************************************************************************)
EXTENDS Integers, Sequences, FiniteSets, TLC

\* ------------------------------------------------------------------ bounds
NumSessions == 2        \* browser sessions running the script concurrently
MaxTurns == 2           \* questions submitted, over all sessions

Sessions == 1..NumSessions

\* ------------------------------------------------------------ text helpers
ArabicFirst == 1536     \* '؀'
ArabicLast == 1791      \* 'ۿ'

\* IsArabic, had the lower end of the range been excluded.
IsArabicExclusive(question) ==
    \E i \in 1..Len(question) :
        ArabicFirst < question[i] /\ question[i] <= ArabicLast

\* any('؀' <= ch <= 'ۿ' for ch in question)
IsArabic(question) ==
    \E i \in 1..Len(question) :
        ArabicFirst <= question[i] /\ question[i] <= ArabicLast

\* the code points c with chr(c).isspace()
Whitespace ==
    {9, 10, 11, 12, 13, 28, 29, 30, 31, 32, 133, 160, 5760, 8232, 8233, 8239,
     8287, 12288} \cup 8192..8202

\* str.strip(): drop leading and trailing whitespace
RECURSIVE LStrip(_)
LStrip(s) ==
    IF s # << >> /\ Head(s) \in Whitespace THEN LStrip(Tail(s)) ELSE s

RECURSIVE RStrip(_)
RStrip(s) ==
    IF s # << >> /\ s[Len(s)] \in Whitespace
    THEN RStrip(SubSeq(s, 1, Len(s) - 1))
    ELSE s

Strip(s) == RStrip(LStrip(s))

\* ------------------------------------------------------------ letter case
\* str.lower() and str.upper() follow the Unicode character database
\* (version 14.0.0).  The tables list every code point that the two methods
\* change.

\* chr(c).lower() is one other character: <<first, last, step, delta>> stands
\* for c -> c + delta for c = first, first + step, ..., last
LowerRanges ==
    { <<65, 90, 1, 32>>, <<192, 214, 1, 32>>, <<216, 222, 1, 32>>,
      <<256, 302, 2, 1>>, <<306, 310, 2, 1>>, <<313, 327, 2, 1>>,
      <<330, 374, 2, 1>>, <<376, 376, 1, -121>>, <<377, 381, 2, 1>>,
      <<385, 385, 1, 210>>, <<386, 388, 2, 1>>, <<390, 390, 1, 206>>,
      <<391, 391, 1, 1>>, <<393, 394, 1, 205>>, <<395, 395, 1, 1>>,
      <<398, 398, 1, 79>>, <<399, 399, 1, 202>>, <<400, 400, 1, 203>>,
      <<401, 401, 1, 1>>, <<403, 403, 1, 205>>, <<404, 404, 1, 207>>,
      <<406, 406, 1, 211>>, <<407, 407, 1, 209>>, <<408, 408, 1, 1>>,
      <<412, 412, 1, 211>>, <<413, 413, 1, 213>>, <<415, 415, 1, 214>>,
      <<416, 420, 2, 1>>, <<422, 422, 1, 218>>, <<423, 423, 1, 1>>,
      <<425, 425, 1, 218>>, <<428, 428, 1, 1>>, <<430, 430, 1, 218>>,
      <<431, 431, 1, 1>>, <<433, 434, 1, 217>>, <<435, 437, 2, 1>>,
      <<439, 439, 1, 219>>, <<440, 440, 1, 1>>, <<444, 444, 1, 1>>,
      <<452, 452, 1, 2>>, <<453, 453, 1, 1>>, <<455, 455, 1, 2>>,
      <<456, 456, 1, 1>>, <<458, 458, 1, 2>>, <<459, 475, 2, 1>>,
      <<478, 494, 2, 1>>, <<497, 497, 1, 2>>, <<498, 500, 2, 1>>,
      <<502, 502, 1, -97>>, <<503, 503, 1, -56>>, <<504, 542, 2, 1>>,
      <<544, 544, 1, -130>>, <<546, 562, 2, 1>>, <<570, 570, 1, 10795>>,
      <<571, 571, 1, 1>>, <<573, 573, 1, -163>>, <<574, 574, 1, 10792>>,
      <<577, 577, 1, 1>>, <<579, 579, 1, -195>>, <<580, 580, 1, 69>>,
      <<581, 581, 1, 71>>, <<582, 590, 2, 1>>, <<880, 882, 2, 1>>,
      <<886, 886, 1, 1>>, <<895, 895, 1, 116>>, <<902, 902, 1, 38>>,
      <<904, 906, 1, 37>>, <<908, 908, 1, 64>>, <<910, 911, 1, 63>>,
      <<913, 929, 1, 32>>, <<932, 939, 1, 32>>, <<975, 975, 1, 8>>,
      <<984, 1006, 2, 1>>, <<1012, 1012, 1, -60>>, <<1015, 1015, 1, 1>>,
      <<1017, 1017, 1, -7>>, <<1018, 1018, 1, 1>>, <<1021, 1023, 1, -130>>,
      <<1024, 1039, 1, 80>>, <<1040, 1071, 1, 32>>, <<1120, 1152, 2, 1>>,
      <<1162, 1214, 2, 1>>, <<1216, 1216, 1, 15>>, <<1217, 1229, 2, 1>>,
      <<1232, 1326, 2, 1>>, <<1329, 1366, 1, 48>>, <<4256, 4293, 1, 7264>>,
      <<4295, 4295, 1, 7264>>, <<4301, 4301, 1, 7264>>,
      <<5024, 5103, 1, 38864>>, <<5104, 5109, 1, 8>>,
      <<7312, 7354, 1, -3008>>, <<7357, 7359, 1, -3008>>,
      <<7680, 7828, 2, 1>>, <<7838, 7838, 1, -7615>>, <<7840, 7934, 2, 1>>,
      <<7944, 7951, 1, -8>>, <<7960, 7965, 1, -8>>, <<7976, 7983, 1, -8>>,
      <<7992, 7999, 1, -8>>, <<8008, 8013, 1, -8>>, <<8025, 8031, 2, -8>>,
      <<8040, 8047, 1, -8>>, <<8072, 8079, 1, -8>>, <<8088, 8095, 1, -8>>,
      <<8104, 8111, 1, -8>>, <<8120, 8121, 1, -8>>, <<8122, 8123, 1, -74>>,
      <<8124, 8124, 1, -9>>, <<8136, 8139, 1, -86>>, <<8140, 8140, 1, -9>>,
      <<8152, 8153, 1, -8>>, <<8154, 8155, 1, -100>>, <<8168, 8169, 1, -8>>,
      <<8170, 8171, 1, -112>>, <<8172, 8172, 1, -7>>, <<8184, 8185, 1, -128>>,
      <<8186, 8187, 1, -126>>, <<8188, 8188, 1, -9>>,
      <<8486, 8486, 1, -7517>>, <<8490, 8490, 1, -8383>>,
      <<8491, 8491, 1, -8262>>, <<8498, 8498, 1, 28>>, <<8544, 8559, 1, 16>>,
      <<8579, 8579, 1, 1>>, <<9398, 9423, 1, 26>>, <<11264, 11311, 1, 48>>,
      <<11360, 11360, 1, 1>>, <<11362, 11362, 1, -10743>>,
      <<11363, 11363, 1, -3814>>, <<11364, 11364, 1, -10727>>,
      <<11367, 11371, 2, 1>>, <<11373, 11373, 1, -10780>>,
      <<11374, 11374, 1, -10749>>, <<11375, 11375, 1, -10783>>,
      <<11376, 11376, 1, -10782>>, <<11378, 11378, 1, 1>>,
      <<11381, 11381, 1, 1>>, <<11390, 11391, 1, -10815>>,
      <<11392, 11490, 2, 1>>, <<11499, 11501, 2, 1>>, <<11506, 11506, 1, 1>>,
      <<42560, 42604, 2, 1>>, <<42624, 42650, 2, 1>>, <<42786, 42798, 2, 1>>,
      <<42802, 42862, 2, 1>>, <<42873, 42875, 2, 1>>,
      <<42877, 42877, 1, -35332>>, <<42878, 42886, 2, 1>>,
      <<42891, 42891, 1, 1>>, <<42893, 42893, 1, -42280>>,
      <<42896, 42898, 2, 1>>, <<42902, 42920, 2, 1>>,
      <<42922, 42922, 1, -42308>>, <<42923, 42923, 1, -42319>>,
      <<42924, 42924, 1, -42315>>, <<42925, 42925, 1, -42305>>,
      <<42926, 42926, 1, -42308>>, <<42928, 42928, 1, -42258>>,
      <<42929, 42929, 1, -42282>>, <<42930, 42930, 1, -42261>>,
      <<42931, 42931, 1, 928>>, <<42932, 42946, 2, 1>>,
      <<42948, 42948, 1, -48>>, <<42949, 42949, 1, -42307>>,
      <<42950, 42950, 1, -35384>>, <<42951, 42953, 2, 1>>,
      <<42960, 42960, 1, 1>>, <<42966, 42968, 2, 1>>, <<42997, 42997, 1, 1>>,
      <<65313, 65338, 1, 32>>, <<66560, 66599, 1, 40>>,
      <<66736, 66771, 1, 40>>, <<66928, 66938, 1, 39>>,
      <<66940, 66954, 1, 39>>, <<66956, 66962, 1, 39>>,
      <<66964, 66965, 1, 39>>, <<68736, 68786, 1, 64>>,
      <<71840, 71871, 1, 32>>, <<93760, 93791, 1, 32>>,
      <<125184, 125217, 1, 34>> }

\* chr(c).lower() is more than one character
LowerSpecial ==
    { <<304, <<105, 775>>>> }

\* chr(c).upper() is one other character, as in LowerRanges
UpperRanges ==
    { <<97, 122, 1, -32>>, <<181, 181, 1, 743>>, <<224, 246, 1, -32>>,
      <<248, 254, 1, -32>>, <<255, 255, 1, 121>>, <<257, 303, 2, -1>>,
      <<305, 305, 1, -232>>, <<307, 311, 2, -1>>, <<314, 328, 2, -1>>,
      <<331, 375, 2, -1>>, <<378, 382, 2, -1>>, <<383, 383, 1, -300>>,
      <<384, 384, 1, 195>>, <<387, 389, 2, -1>>, <<392, 392, 1, -1>>,
      <<396, 396, 1, -1>>, <<402, 402, 1, -1>>, <<405, 405, 1, 97>>,
      <<409, 409, 1, -1>>, <<410, 410, 1, 163>>, <<414, 414, 1, 130>>,
      <<417, 421, 2, -1>>, <<424, 424, 1, -1>>, <<429, 429, 1, -1>>,
      <<432, 432, 1, -1>>, <<436, 438, 2, -1>>, <<441, 441, 1, -1>>,
      <<445, 445, 1, -1>>, <<447, 447, 1, 56>>, <<453, 453, 1, -1>>,
      <<454, 454, 1, -2>>, <<456, 456, 1, -1>>, <<457, 457, 1, -2>>,
      <<459, 459, 1, -1>>, <<460, 460, 1, -2>>, <<462, 476, 2, -1>>,
      <<477, 477, 1, -79>>, <<479, 495, 2, -1>>, <<498, 498, 1, -1>>,
      <<499, 499, 1, -2>>, <<501, 501, 1, -1>>, <<505, 543, 2, -1>>,
      <<547, 563, 2, -1>>, <<572, 572, 1, -1>>, <<575, 576, 1, 10815>>,
      <<578, 578, 1, -1>>, <<583, 591, 2, -1>>, <<592, 592, 1, 10783>>,
      <<593, 593, 1, 10780>>, <<594, 594, 1, 10782>>, <<595, 595, 1, -210>>,
      <<596, 596, 1, -206>>, <<598, 599, 1, -205>>, <<601, 601, 1, -202>>,
      <<603, 603, 1, -203>>, <<604, 604, 1, 42319>>, <<608, 608, 1, -205>>,
      <<609, 609, 1, 42315>>, <<611, 611, 1, -207>>, <<613, 613, 1, 42280>>,
      <<614, 614, 1, 42308>>, <<616, 616, 1, -209>>, <<617, 617, 1, -211>>,
      <<618, 618, 1, 42308>>, <<619, 619, 1, 10743>>, <<620, 620, 1, 42305>>,
      <<623, 623, 1, -211>>, <<625, 625, 1, 10749>>, <<626, 626, 1, -213>>,
      <<629, 629, 1, -214>>, <<637, 637, 1, 10727>>, <<640, 640, 1, -218>>,
      <<642, 642, 1, 42307>>, <<643, 643, 1, -218>>, <<647, 647, 1, 42282>>,
      <<648, 648, 1, -218>>, <<649, 649, 1, -69>>, <<650, 651, 1, -217>>,
      <<652, 652, 1, -71>>, <<658, 658, 1, -219>>, <<669, 669, 1, 42261>>,
      <<670, 670, 1, 42258>>, <<837, 837, 1, 84>>, <<881, 883, 2, -1>>,
      <<887, 887, 1, -1>>, <<891, 893, 1, 130>>, <<940, 940, 1, -38>>,
      <<941, 943, 1, -37>>, <<945, 961, 1, -32>>, <<962, 962, 1, -31>>,
      <<963, 971, 1, -32>>, <<972, 972, 1, -64>>, <<973, 974, 1, -63>>,
      <<976, 976, 1, -62>>, <<977, 977, 1, -57>>, <<981, 981, 1, -47>>,
      <<982, 982, 1, -54>>, <<983, 983, 1, -8>>, <<985, 1007, 2, -1>>,
      <<1008, 1008, 1, -86>>, <<1009, 1009, 1, -80>>, <<1010, 1010, 1, 7>>,
      <<1011, 1011, 1, -116>>, <<1013, 1013, 1, -96>>, <<1016, 1016, 1, -1>>,
      <<1019, 1019, 1, -1>>, <<1072, 1103, 1, -32>>, <<1104, 1119, 1, -80>>,
      <<1121, 1153, 2, -1>>, <<1163, 1215, 2, -1>>, <<1218, 1230, 2, -1>>,
      <<1231, 1231, 1, -15>>, <<1233, 1327, 2, -1>>, <<1377, 1414, 1, -48>>,
      <<4304, 4346, 1, 3008>>, <<4349, 4351, 1, 3008>>, <<5112, 5117, 1, -8>>,
      <<7296, 7296, 1, -6254>>, <<7297, 7297, 1, -6253>>,
      <<7298, 7298, 1, -6244>>, <<7299, 7300, 1, -6242>>,
      <<7301, 7301, 1, -6243>>, <<7302, 7302, 1, -6236>>,
      <<7303, 7303, 1, -6181>>, <<7304, 7304, 1, 35266>>,
      <<7545, 7545, 1, 35332>>, <<7549, 7549, 1, 3814>>,
      <<7566, 7566, 1, 35384>>, <<7681, 7829, 2, -1>>, <<7835, 7835, 1, -59>>,
      <<7841, 7935, 2, -1>>, <<7936, 7943, 1, 8>>, <<7952, 7957, 1, 8>>,
      <<7968, 7975, 1, 8>>, <<7984, 7991, 1, 8>>, <<8000, 8005, 1, 8>>,
      <<8017, 8023, 2, 8>>, <<8032, 8039, 1, 8>>, <<8048, 8049, 1, 74>>,
      <<8050, 8053, 1, 86>>, <<8054, 8055, 1, 100>>, <<8056, 8057, 1, 128>>,
      <<8058, 8059, 1, 112>>, <<8060, 8061, 1, 126>>, <<8112, 8113, 1, 8>>,
      <<8126, 8126, 1, -7205>>, <<8144, 8145, 1, 8>>, <<8160, 8161, 1, 8>>,
      <<8165, 8165, 1, 7>>, <<8526, 8526, 1, -28>>, <<8560, 8575, 1, -16>>,
      <<8580, 8580, 1, -1>>, <<9424, 9449, 1, -26>>, <<11312, 11359, 1, -48>>,
      <<11361, 11361, 1, -1>>, <<11365, 11365, 1, -10795>>,
      <<11366, 11366, 1, -10792>>, <<11368, 11372, 2, -1>>,
      <<11379, 11379, 1, -1>>, <<11382, 11382, 1, -1>>,
      <<11393, 11491, 2, -1>>, <<11500, 11502, 2, -1>>,
      <<11507, 11507, 1, -1>>, <<11520, 11557, 1, -7264>>,
      <<11559, 11559, 1, -7264>>, <<11565, 11565, 1, -7264>>,
      <<42561, 42605, 2, -1>>, <<42625, 42651, 2, -1>>,
      <<42787, 42799, 2, -1>>, <<42803, 42863, 2, -1>>,
      <<42874, 42876, 2, -1>>, <<42879, 42887, 2, -1>>,
      <<42892, 42892, 1, -1>>, <<42897, 42899, 2, -1>>,
      <<42900, 42900, 1, 48>>, <<42903, 42921, 2, -1>>,
      <<42933, 42947, 2, -1>>, <<42952, 42954, 2, -1>>,
      <<42961, 42961, 1, -1>>, <<42967, 42969, 2, -1>>,
      <<42998, 42998, 1, -1>>, <<43859, 43859, 1, -928>>,
      <<43888, 43967, 1, -38864>>, <<65345, 65370, 1, -32>>,
      <<66600, 66639, 1, -40>>, <<66776, 66811, 1, -40>>,
      <<66967, 66977, 1, -39>>, <<66979, 66993, 1, -39>>,
      <<66995, 67001, 1, -39>>, <<67003, 67004, 1, -39>>,
      <<68800, 68850, 1, -64>>, <<71872, 71903, 1, -32>>,
      <<93792, 93823, 1, -32>>, <<125218, 125251, 1, -34>> }

\* chr(c).upper() is more than one character
UpperSpecial ==
    { <<223, <<83, 83>>>>, <<329, <<700, 78>>>>, <<496, <<74, 780>>>>,
      <<912, <<921, 776, 769>>>>, <<944, <<933, 776, 769>>>>,
      <<1415, <<1333, 1362>>>>, <<7830, <<72, 817>>>>, <<7831, <<84, 776>>>>,
      <<7832, <<87, 778>>>>, <<7833, <<89, 778>>>>, <<7834, <<65, 702>>>>,
      <<8016, <<933, 787>>>>, <<8018, <<933, 787, 768>>>>,
      <<8020, <<933, 787, 769>>>>, <<8022, <<933, 787, 834>>>>,
      <<8064, <<7944, 921>>>>, <<8065, <<7945, 921>>>>,
      <<8066, <<7946, 921>>>>, <<8067, <<7947, 921>>>>,
      <<8068, <<7948, 921>>>>, <<8069, <<7949, 921>>>>,
      <<8070, <<7950, 921>>>>, <<8071, <<7951, 921>>>>,
      <<8072, <<7944, 921>>>>, <<8073, <<7945, 921>>>>,
      <<8074, <<7946, 921>>>>, <<8075, <<7947, 921>>>>,
      <<8076, <<7948, 921>>>>, <<8077, <<7949, 921>>>>,
      <<8078, <<7950, 921>>>>, <<8079, <<7951, 921>>>>,
      <<8080, <<7976, 921>>>>, <<8081, <<7977, 921>>>>,
      <<8082, <<7978, 921>>>>, <<8083, <<7979, 921>>>>,
      <<8084, <<7980, 921>>>>, <<8085, <<7981, 921>>>>,
      <<8086, <<7982, 921>>>>, <<8087, <<7983, 921>>>>,
      <<8088, <<7976, 921>>>>, <<8089, <<7977, 921>>>>,
      <<8090, <<7978, 921>>>>, <<8091, <<7979, 921>>>>,
      <<8092, <<7980, 921>>>>, <<8093, <<7981, 921>>>>,
      <<8094, <<7982, 921>>>>, <<8095, <<7983, 921>>>>,
      <<8096, <<8040, 921>>>>, <<8097, <<8041, 921>>>>,
      <<8098, <<8042, 921>>>>, <<8099, <<8043, 921>>>>,
      <<8100, <<8044, 921>>>>, <<8101, <<8045, 921>>>>,
      <<8102, <<8046, 921>>>>, <<8103, <<8047, 921>>>>,
      <<8104, <<8040, 921>>>>, <<8105, <<8041, 921>>>>,
      <<8106, <<8042, 921>>>>, <<8107, <<8043, 921>>>>,
      <<8108, <<8044, 921>>>>, <<8109, <<8045, 921>>>>,
      <<8110, <<8046, 921>>>>, <<8111, <<8047, 921>>>>,
      <<8114, <<8122, 921>>>>, <<8115, <<913, 921>>>>, <<8116, <<902, 921>>>>,
      <<8118, <<913, 834>>>>, <<8119, <<913, 834, 921>>>>,
      <<8124, <<913, 921>>>>, <<8130, <<8138, 921>>>>, <<8131, <<919, 921>>>>,
      <<8132, <<905, 921>>>>, <<8134, <<919, 834>>>>,
      <<8135, <<919, 834, 921>>>>, <<8140, <<919, 921>>>>,
      <<8146, <<921, 776, 768>>>>, <<8147, <<921, 776, 769>>>>,
      <<8150, <<921, 834>>>>, <<8151, <<921, 776, 834>>>>,
      <<8162, <<933, 776, 768>>>>, <<8163, <<933, 776, 769>>>>,
      <<8164, <<929, 787>>>>, <<8166, <<933, 834>>>>,
      <<8167, <<933, 776, 834>>>>, <<8178, <<8186, 921>>>>,
      <<8179, <<937, 921>>>>, <<8180, <<911, 921>>>>, <<8182, <<937, 834>>>>,
      <<8183, <<937, 834, 921>>>>, <<8188, <<937, 921>>>>,
      <<64256, <<70, 70>>>>, <<64257, <<70, 73>>>>, <<64258, <<70, 76>>>>,
      <<64259, <<70, 70, 73>>>>, <<64260, <<70, 70, 76>>>>,
      <<64261, <<83, 84>>>>, <<64262, <<83, 84>>>>, <<64275, <<1348, 1350>>>>,
      <<64276, <<1348, 1333>>>>, <<64277, <<1348, 1339>>>>,
      <<64278, <<1358, 1350>>>>, <<64279, <<1348, 1341>>>> }

\* <<first, last>>: the code points that are case-ignorable (skipped when
\* lower() looks for the letters around a capital sigma)
CaseIgnorable ==
    { <<39, 39>>, <<46, 46>>, <<58, 58>>, <<94, 94>>, <<96, 96>>,
      <<168, 168>>, <<173, 173>>, <<175, 175>>, <<180, 180>>, <<183, 184>>,
      <<688, 879>>, <<884, 885>>, <<890, 890>>, <<900, 901>>, <<903, 903>>,
      <<1155, 1161>>, <<1369, 1369>>, <<1375, 1375>>, <<1425, 1469>>,
      <<1471, 1471>>, <<1473, 1474>>, <<1476, 1477>>, <<1479, 1479>>,
      <<1524, 1524>>, <<1536, 1541>>, <<1552, 1562>>, <<1564, 1564>>,
      <<1600, 1600>>, <<1611, 1631>>, <<1648, 1648>>, <<1750, 1757>>,
      <<1759, 1768>>, <<1770, 1773>>, <<1807, 1807>>, <<1809, 1809>>,
      <<1840, 1866>>, <<1958, 1968>>, <<2027, 2037>>, <<2042, 2042>>,
      <<2045, 2045>>, <<2070, 2093>>, <<2137, 2139>>, <<2184, 2184>>,
      <<2192, 2193>>, <<2200, 2207>>, <<2249, 2306>>, <<2362, 2362>>,
      <<2364, 2364>>, <<2369, 2376>>, <<2381, 2381>>, <<2385, 2391>>,
      <<2402, 2403>>, <<2417, 2417>>, <<2433, 2433>>, <<2492, 2492>>,
      <<2497, 2500>>, <<2509, 2509>>, <<2530, 2531>>, <<2558, 2558>>,
      <<2561, 2562>>, <<2620, 2620>>, <<2625, 2626>>, <<2631, 2632>>,
      <<2635, 2637>>, <<2641, 2641>>, <<2672, 2673>>, <<2677, 2677>>,
      <<2689, 2690>>, <<2748, 2748>>, <<2753, 2757>>, <<2759, 2760>>,
      <<2765, 2765>>, <<2786, 2787>>, <<2810, 2815>>, <<2817, 2817>>,
      <<2876, 2876>>, <<2879, 2879>>, <<2881, 2884>>, <<2893, 2893>>,
      <<2901, 2902>>, <<2914, 2915>>, <<2946, 2946>>, <<3008, 3008>>,
      <<3021, 3021>>, <<3072, 3072>>, <<3076, 3076>>, <<3132, 3132>>,
      <<3134, 3136>>, <<3142, 3144>>, <<3146, 3149>>, <<3157, 3158>>,
      <<3170, 3171>>, <<3201, 3201>>, <<3260, 3260>>, <<3263, 3263>>,
      <<3270, 3270>>, <<3276, 3277>>, <<3298, 3299>>, <<3328, 3329>>,
      <<3387, 3388>>, <<3393, 3396>>, <<3405, 3405>>, <<3426, 3427>>,
      <<3457, 3457>>, <<3530, 3530>>, <<3538, 3540>>, <<3542, 3542>>,
      <<3633, 3633>>, <<3636, 3642>>, <<3654, 3662>>, <<3761, 3761>>,
      <<3764, 3772>>, <<3782, 3782>>, <<3784, 3789>>, <<3864, 3865>>,
      <<3893, 3893>>, <<3895, 3895>>, <<3897, 3897>>, <<3953, 3966>>,
      <<3968, 3972>>, <<3974, 3975>>, <<3981, 3991>>, <<3993, 4028>>,
      <<4038, 4038>>, <<4141, 4144>>, <<4146, 4151>>, <<4153, 4154>>,
      <<4157, 4158>>, <<4184, 4185>>, <<4190, 4192>>, <<4209, 4212>>,
      <<4226, 4226>>, <<4229, 4230>>, <<4237, 4237>>, <<4253, 4253>>,
      <<4348, 4348>>, <<4957, 4959>>, <<5906, 5908>>, <<5938, 5939>>,
      <<5970, 5971>>, <<6002, 6003>>, <<6068, 6069>>, <<6071, 6077>>,
      <<6086, 6086>>, <<6089, 6099>>, <<6103, 6103>>, <<6109, 6109>>,
      <<6155, 6159>>, <<6211, 6211>>, <<6277, 6278>>, <<6313, 6313>>,
      <<6432, 6434>>, <<6439, 6440>>, <<6450, 6450>>, <<6457, 6459>>,
      <<6679, 6680>>, <<6683, 6683>>, <<6742, 6742>>, <<6744, 6750>>,
      <<6752, 6752>>, <<6754, 6754>>, <<6757, 6764>>, <<6771, 6780>>,
      <<6783, 6783>>, <<6823, 6823>>, <<6832, 6862>>, <<6912, 6915>>,
      <<6964, 6964>>, <<6966, 6970>>, <<6972, 6972>>, <<6978, 6978>>,
      <<7019, 7027>>, <<7040, 7041>>, <<7074, 7077>>, <<7080, 7081>>,
      <<7083, 7085>>, <<7142, 7142>>, <<7144, 7145>>, <<7149, 7149>>,
      <<7151, 7153>>, <<7212, 7219>>, <<7222, 7223>>, <<7288, 7293>>,
      <<7376, 7378>>, <<7380, 7392>>, <<7394, 7400>>, <<7405, 7405>>,
      <<7412, 7412>>, <<7416, 7417>>, <<7468, 7530>>, <<7544, 7544>>,
      <<7579, 7679>>, <<8125, 8125>>, <<8127, 8129>>, <<8141, 8143>>,
      <<8157, 8159>>, <<8173, 8175>>, <<8189, 8190>>, <<8203, 8207>>,
      <<8216, 8217>>, <<8228, 8228>>, <<8231, 8231>>, <<8234, 8238>>,
      <<8288, 8292>>, <<8294, 8303>>, <<8305, 8305>>, <<8319, 8319>>,
      <<8336, 8348>>, <<8400, 8432>>, <<11388, 11389>>, <<11503, 11505>>,
      <<11631, 11631>>, <<11647, 11647>>, <<11744, 11775>>, <<11823, 11823>>,
      <<12293, 12293>>, <<12330, 12333>>, <<12337, 12341>>, <<12347, 12347>>,
      <<12441, 12446>>, <<12540, 12542>>, <<40981, 40981>>, <<42232, 42237>>,
      <<42508, 42508>>, <<42607, 42610>>, <<42612, 42621>>, <<42623, 42623>>,
      <<42652, 42655>>, <<42736, 42737>>, <<42752, 42785>>, <<42864, 42864>>,
      <<42888, 42890>>, <<42994, 42996>>, <<43000, 43001>>, <<43010, 43010>>,
      <<43014, 43014>>, <<43019, 43019>>, <<43045, 43046>>, <<43052, 43052>>,
      <<43204, 43205>>, <<43232, 43249>>, <<43263, 43263>>, <<43302, 43309>>,
      <<43335, 43345>>, <<43392, 43394>>, <<43443, 43443>>, <<43446, 43449>>,
      <<43452, 43453>>, <<43471, 43471>>, <<43493, 43494>>, <<43561, 43566>>,
      <<43569, 43570>>, <<43573, 43574>>, <<43587, 43587>>, <<43596, 43596>>,
      <<43632, 43632>>, <<43644, 43644>>, <<43696, 43696>>, <<43698, 43700>>,
      <<43703, 43704>>, <<43710, 43711>>, <<43713, 43713>>, <<43741, 43741>>,
      <<43756, 43757>>, <<43763, 43764>>, <<43766, 43766>>, <<43867, 43871>>,
      <<43881, 43883>>, <<44005, 44005>>, <<44008, 44008>>, <<44013, 44013>>,
      <<64286, 64286>>, <<64434, 64450>>, <<65024, 65039>>, <<65043, 65043>>,
      <<65056, 65071>>, <<65106, 65106>>, <<65109, 65109>>, <<65279, 65279>>,
      <<65287, 65287>>, <<65294, 65294>>, <<65306, 65306>>, <<65342, 65342>>,
      <<65344, 65344>>, <<65392, 65392>>, <<65438, 65439>>, <<65507, 65507>>,
      <<65529, 65531>>, <<66045, 66045>>, <<66272, 66272>>, <<66422, 66426>>,
      <<67456, 67461>>, <<67463, 67504>>, <<67506, 67514>>, <<68097, 68099>>,
      <<68101, 68102>>, <<68108, 68111>>, <<68152, 68154>>, <<68159, 68159>>,
      <<68325, 68326>>, <<68900, 68903>>, <<69291, 69292>>, <<69446, 69456>>,
      <<69506, 69509>>, <<69633, 69633>>, <<69688, 69702>>, <<69744, 69744>>,
      <<69747, 69748>>, <<69759, 69761>>, <<69811, 69814>>, <<69817, 69818>>,
      <<69821, 69821>>, <<69826, 69826>>, <<69837, 69837>>, <<69888, 69890>>,
      <<69927, 69931>>, <<69933, 69940>>, <<70003, 70003>>, <<70016, 70017>>,
      <<70070, 70078>>, <<70089, 70092>>, <<70095, 70095>>, <<70191, 70193>>,
      <<70196, 70196>>, <<70198, 70199>>, <<70206, 70206>>, <<70367, 70367>>,
      <<70371, 70378>>, <<70400, 70401>>, <<70459, 70460>>, <<70464, 70464>>,
      <<70502, 70508>>, <<70512, 70516>>, <<70712, 70719>>, <<70722, 70724>>,
      <<70726, 70726>>, <<70750, 70750>>, <<70835, 70840>>, <<70842, 70842>>,
      <<70847, 70848>>, <<70850, 70851>>, <<71090, 71093>>, <<71100, 71101>>,
      <<71103, 71104>>, <<71132, 71133>>, <<71219, 71226>>, <<71229, 71229>>,
      <<71231, 71232>>, <<71339, 71339>>, <<71341, 71341>>, <<71344, 71349>>,
      <<71351, 71351>>, <<71453, 71455>>, <<71458, 71461>>, <<71463, 71467>>,
      <<71727, 71735>>, <<71737, 71738>>, <<71995, 71996>>, <<71998, 71998>>,
      <<72003, 72003>>, <<72148, 72151>>, <<72154, 72155>>, <<72160, 72160>>,
      <<72193, 72202>>, <<72243, 72248>>, <<72251, 72254>>, <<72263, 72263>>,
      <<72273, 72278>>, <<72281, 72283>>, <<72330, 72342>>, <<72344, 72345>>,
      <<72752, 72758>>, <<72760, 72765>>, <<72767, 72767>>, <<72850, 72871>>,
      <<72874, 72880>>, <<72882, 72883>>, <<72885, 72886>>, <<73009, 73014>>,
      <<73018, 73018>>, <<73020, 73021>>, <<73023, 73029>>, <<73031, 73031>>,
      <<73104, 73105>>, <<73109, 73109>>, <<73111, 73111>>, <<73459, 73460>>,
      <<78896, 78904>>, <<92912, 92916>>, <<92976, 92982>>, <<92992, 92995>>,
      <<94031, 94031>>, <<94095, 94111>>, <<94176, 94177>>, <<94179, 94180>>,
      <<110576, 110579>>, <<110581, 110587>>, <<110589, 110590>>,
      <<113821, 113822>>, <<113824, 113827>>, <<118528, 118573>>,
      <<118576, 118598>>, <<119143, 119145>>, <<119155, 119170>>,
      <<119173, 119179>>, <<119210, 119213>>, <<119362, 119364>>,
      <<121344, 121398>>, <<121403, 121452>>, <<121461, 121461>>,
      <<121476, 121476>>, <<121499, 121503>>, <<121505, 121519>>,
      <<122880, 122886>>, <<122888, 122904>>, <<122907, 122913>>,
      <<122915, 122916>>, <<122918, 122922>>, <<123184, 123197>>,
      <<123566, 123566>>, <<123628, 123631>>, <<125136, 125142>>,
      <<125252, 125259>>, <<127995, 127999>>, <<917505, 917505>>,
      <<917536, 917631>>, <<917760, 917999>> }

\* <<first, last>>: the cased code points that are not case-ignorable
Cased ==
    { <<65, 90>>, <<97, 122>>, <<170, 170>>, <<181, 181>>, <<186, 186>>,
      <<192, 214>>, <<216, 246>>, <<248, 442>>, <<444, 447>>, <<452, 659>>,
      <<661, 687>>, <<880, 883>>, <<886, 887>>, <<891, 893>>, <<895, 895>>,
      <<902, 902>>, <<904, 906>>, <<908, 908>>, <<910, 929>>, <<931, 1013>>,
      <<1015, 1153>>, <<1162, 1327>>, <<1329, 1366>>, <<1376, 1416>>,
      <<4256, 4293>>, <<4295, 4295>>, <<4301, 4301>>, <<4304, 4346>>,
      <<4349, 4351>>, <<5024, 5109>>, <<5112, 5117>>, <<7296, 7304>>,
      <<7312, 7354>>, <<7357, 7359>>, <<7424, 7467>>, <<7531, 7543>>,
      <<7545, 7578>>, <<7680, 7957>>, <<7960, 7965>>, <<7968, 8005>>,
      <<8008, 8013>>, <<8016, 8023>>, <<8025, 8025>>, <<8027, 8027>>,
      <<8029, 8029>>, <<8031, 8061>>, <<8064, 8116>>, <<8118, 8124>>,
      <<8126, 8126>>, <<8130, 8132>>, <<8134, 8140>>, <<8144, 8147>>,
      <<8150, 8155>>, <<8160, 8172>>, <<8178, 8180>>, <<8182, 8188>>,
      <<8450, 8450>>, <<8455, 8455>>, <<8458, 8467>>, <<8469, 8469>>,
      <<8473, 8477>>, <<8484, 8484>>, <<8486, 8486>>, <<8488, 8488>>,
      <<8490, 8493>>, <<8495, 8500>>, <<8505, 8505>>, <<8508, 8511>>,
      <<8517, 8521>>, <<8526, 8526>>, <<8544, 8575>>, <<8579, 8580>>,
      <<9398, 9449>>, <<11264, 11387>>, <<11390, 11492>>, <<11499, 11502>>,
      <<11506, 11507>>, <<11520, 11557>>, <<11559, 11559>>, <<11565, 11565>>,
      <<42560, 42605>>, <<42624, 42651>>, <<42786, 42863>>, <<42865, 42887>>,
      <<42891, 42894>>, <<42896, 42954>>, <<42960, 42961>>, <<42963, 42963>>,
      <<42965, 42969>>, <<42997, 42998>>, <<43002, 43002>>, <<43824, 43866>>,
      <<43872, 43880>>, <<43888, 43967>>, <<64256, 64262>>, <<64275, 64279>>,
      <<65313, 65338>>, <<65345, 65370>>, <<66560, 66639>>, <<66736, 66771>>,
      <<66776, 66811>>, <<66928, 66938>>, <<66940, 66954>>, <<66956, 66962>>,
      <<66964, 66965>>, <<66967, 66977>>, <<66979, 66993>>, <<66995, 67001>>,
      <<67003, 67004>>, <<68736, 68786>>, <<68800, 68850>>, <<71840, 71903>>,
      <<93760, 93823>>, <<119808, 119892>>, <<119894, 119964>>,
      <<119966, 119967>>, <<119970, 119970>>, <<119973, 119974>>,
      <<119977, 119980>>, <<119982, 119993>>, <<119995, 119995>>,
      <<119997, 120003>>, <<120005, 120069>>, <<120071, 120074>>,
      <<120077, 120084>>, <<120086, 120092>>, <<120094, 120121>>,
      <<120123, 120126>>, <<120128, 120132>>, <<120134, 120134>>,
      <<120138, 120144>>, <<120146, 120485>>, <<120488, 120512>>,
      <<120514, 120538>>, <<120540, 120570>>, <<120572, 120596>>,
      <<120598, 120628>>, <<120630, 120654>>, <<120656, 120686>>,
      <<120688, 120712>>, <<120714, 120744>>, <<120746, 120770>>,
      <<120772, 120779>>, <<122624, 122633>>, <<122635, 122654>>,
      <<125184, 125251>>, <<127280, 127305>>, <<127312, 127337>>,
      <<127344, 127369>> }

Within(ranges, c) == \E r \in ranges : r[1] <= c /\ c <= r[2]

\* the one character that table `ranges` maps c to, c itself when it has none
Mapped(ranges, c) ==
    LET R == {r \in ranges : r[1] <= c /\ c <= r[2] /\ (c - r[1]) % r[3] = 0}
    IN  IF R = {} THEN c ELSE c + (CHOOSE r \in R : TRUE)[4]

\* what c becomes: its entry in `special`, else its mapping in `ranges`
Cases(special, ranges, c) ==
    IF \E e \in special : e[1] = c
    THEN (CHOOSE e \in special : e[1] = c)[2]
    ELSE << Mapped(ranges, c) >>

CapitalSigma == 931     \* 'Σ'
SmallSigma == 963       \* 'σ'
FinalSigma == 962       \* 'ς'

\* lower() of the capital sigma at position i of s: the final form when the
\* nearest letter before it that is not case-ignorable is cased and the
\* nearest one after it is not
LowerSigma(s, i) ==
    LET before == {j \in 1..(i - 1) : ~Within(CaseIgnorable, s[j])}
        after == {j \in (i + 1)..Len(s) : ~Within(CaseIgnorable, s[j])}
        last == CHOOSE j \in before : \A k \in before : k <= j
        first == CHOOSE j \in after : \A k \in after : j <= k
    IN  IF /\ before # {}
           /\ Within(Cased, s[last])
           /\ (after = {} \/ ~Within(Cased, s[first]))
        THEN FinalSigma
        ELSE SmallSigma

RECURSIVE LowerFrom(_, _)
LowerFrom(s, i) ==
    IF i > Len(s) THEN << >>
    ELSE (IF s[i] = CapitalSigma THEN << LowerSigma(s, i) >>
          ELSE Cases(LowerSpecial, LowerRanges, s[i])) \o LowerFrom(s, i + 1)

\* str.isascii(); lower() and upper() of an ASCII string change the
\* letters A-Z / a-z only
IsAscii(s) == \A i \in 1..Len(s) : s[i] < 128

AsciiLower(s) ==
    [i \in 1..Len(s) |-> IF 65 <= s[i] /\ s[i] <= 90 THEN s[i] + 32 ELSE s[i]]

AsciiUpper(s) ==
    [i \in 1..Len(s) |-> IF 97 <= s[i] /\ s[i] <= 122 THEN s[i] - 32 ELSE s[i]]

RECURSIVE UpperFrom(_, _)
UpperFrom(s, i) ==
    IF i > Len(s) THEN << >>
    ELSE Cases(UpperSpecial, UpperRanges, s[i]) \o UpperFrom(s, i + 1)

LowerSkipped(s) == s         \* Lower, had .lower() been left out

\* str.lower()
Lower(s) == IF IsAscii(s) THEN AsciiLower(s) ELSE LowerFrom(s, 1)

\* str.upper()
Upper(s) == IF IsAscii(s) THEN AsciiUpper(s) ELSE UpperFrom(s, 1)

\* sub in s
Contains(s, sub) ==
    \E i \in 0..(Len(s) - Len(sub)) : SubSeq(s, i + 1, i + Len(sub)) = sub

\* ------------------------------------------------------------ literal text
S_portfolio == <<112, 111, 114, 116, 102, 111, 108, 105, 111>>  \* "portfolio"
S_general == <<103, 101, 110, 101, 114, 97, 108>>               \* "general"
S_smalltalk == <<115, 109, 97, 108, 108, 116, 97, 108, 107>>    \* "smalltalk"
S_identity == <<105, 100, 101, 110, 116, 105, 116, 121>>        \* "identity"
S_invalid == <<105, 110, 118, 97, 108, 105, 100>>               \* "invalid"
S_SELECT == <<83, 69, 76, 69, 67, 84>>                          \* "SELECT"

PORTFOLIO_APOLOGY ==
    "I'm sorry, I had trouble accessing the portfolio data. The query might be too complex or the data may not be available."
NO_DATA_ANSWER == "I ran a query but found no data for your request."
INTERNET_APOLOGY ==
    "Sorry, I couldn't access my online information source right now."
base_identity ==
    "I am a multi-agent AI financial assistant, designed to help you analyze portfolio data and research market insights using specialized agents."
INVALID_ANSWER ==
    "I can only answer questions related to finance and your portfolio. Please ask a relevant question."
DEFAULT_ANSWER == "Sorry, I encountered an issue and couldn't find an answer."
CRITICAL_ERROR == "I'm sorry, I ran into a critical error. Please try again."

\* ------------------------------------------------- optional (absent) values
Unset == << >>
Set(v) == <<v>>
IsSet(f) == f # << >>
Val(f) == f[1]
\* dict.get(key, default)
Get(f, default) == IF IsSet(f) THEN Val(f) ELSE default

\* ------------------------------------------------------------- data frames
\* A pandas DataFrame is known to the code by `is None` and `.empty` only.
DfNone == [kind |-> "None", nrows |-> 0]
DataFrame(n) == [kind |-> "DataFrame", nrows |-> n]
\* DfEmpty, had the emptiness test been left out.
DfEmptyNever(df) == FALSE

\* df.empty
DfEmpty(df) == df.nrows = 0

\* --------------------------------------------- replies of external services
\* A call either raises (ok = FALSE) or returns its content.
Raises(content) == [ok |-> FALSE, content |-> content]
Returns(content) == [ok |-> TRUE, content |-> content]
Outcomes(contents, nothing) ==
    {Returns(c) : c \in contents} \cup {Raises(nothing)}

\* requests.post: a network error, or a response with a status code whose
\* body either carries choices[0].message.content or does not
NetworkError == [neterr |-> TRUE, status |-> 0, wellformed |-> FALSE, content |-> ""]
HttpResponse(status, wellformed, content) ==
    [neterr |-> FALSE, status |-> status, wellformed |-> wellformed,
     content |-> content]

\* The questions asked and the replies the services give in the model.
\* FullInputs exercises every branch of every node; SmallInputs is the subset
\* used when several sessions run side by side.
FullInputs ==
    [questions |->
        { <<104, 105>>,                 \* "hi"
          <<1605, 1575>>,               \* two Arabic letters
          <<104, 105, 32, 1536>>,       \* "hi " + U+0600
          <<1535, 1792>> },             \* U+05FF U+0700, next to the range
     translations |-> Outcomes({ <<32, 104, 105, 32>> }, << >>),  \* " hi "
     classifications |-> Outcomes(
        { S_portfolio, S_general, S_smalltalk, S_identity, S_invalid,
          <<80, 79, 82, 84, 70, 79, 76, 73, 79, 32>>,            \* "PORTFOLIO "
          <<32, 83, 109, 97, 108, 108, 116, 97, 108, 107, 10>>,  \* " Smalltalk\n"
          <<112, 111, 114, 116, 102, 111, 108, 105, 111, 46>>,   \* "portfolio."
          <<105, 115, 32, 103, 101, 110, 101, 114, 97, 108>>,    \* "is general"
          <<115, 109, 97, 108, 108, 116, 97, 108, 8490>>,  \* "smalltal" + U+212A
          <<304, 78, 86, 65, 76, 73, 68>>,                 \* U+0130 + "NVALID"
          << >> }, << >>),                                       \* ""
     sqls |-> Outcomes(
        { << >>,                                                 \* ""
          <<83, 69, 76, 69, 67, 84, 32, 49>>,                    \* "SELECT 1"
          <<115, 101, 108, 101, 99, 116, 32, 49>>,               \* "select 1"
          <<383, 101, 108, 101, 99, 116, 32, 49>>,       \* U+017F + "elect 1"
          <<223, 101, 108, 101, 99, 116>>,               \* U+00DF + "elect"
          <<68, 82, 79, 80, 32, 84, 65, 66, 76, 69, 32, 116>>,   \* "DROP TABLE t"
          <<73, 78, 83, 69, 82, 84, 32, 73, 78, 84, 79, 32, 116, 32,
            83, 69, 76, 69, 67, 84, 32, 49>> },       \* "INSERT INTO t SELECT 1"
        << >>),
     frames |-> Outcomes({ DfNone, DataFrame(0), DataFrame(2) }, DfNone),
     explanations |-> Outcomes({ "Your YTD return is 12%." }, ""),
     posts |->
        { NetworkError,
          HttpResponse(200, TRUE, "Markets rose today."),
          HttpResponse(200, FALSE, ""),
          HttpResponse(404, TRUE, "not found"),
          HttpResponse(304, TRUE, "not modified"),
          HttpResponse(500, FALSE, "") },
     replies |-> Outcomes({ "Hello! How can I help?", "" }, ""),
     arabic |-> Outcomes({ "arabic text" }, ""),
     displays |-> BOOLEAN]

SmallInputs ==
    [questions |-> { <<104, 105>>, <<1605, 1575>> },
     translations |-> { Returns(<<32, 104, 105, 32>>) },
     classifications |->
        { Returns(S_general), Returns(S_smalltalk), Returns(S_identity),
          Returns(S_invalid), Raises(<< >>),
          Returns(<<80, 79, 82, 84, 70, 79, 76, 73, 79, 32>>) }, \* "PORTFOLIO "
     sqls |-> { Returns(<<83, 69, 76, 69, 67, 84, 32, 49>>) },
     frames |-> { Returns(DataFrame(2)) },
     explanations |-> { Returns("Your YTD return is 12%.") },
     posts |-> { NetworkError },
     replies |-> { Returns("Hello! How can I help?"), Raises("") },
     arabic |-> { Returns("arabic text"), Raises("") },
     displays |-> { TRUE }]

\* --------------------------------------------------------------- AgentState
\* The keys of the state dictionary; a key the graph has not written is absent.
EmptyState ==
    [original_question |-> Unset, processed_question |-> Unset,
     is_arabic |-> Unset, classification |-> Unset, chat_history |-> Unset,
     sql_query |-> Unset, df_results |-> Unset, final_answer |-> Unset]

\* Inputs, had the caller pre-filled the optional keys with empty defaults.
InputsWithDefaults(question_input, session) ==
    [EmptyState EXCEPT !.original_question = Set(question_input),
                       !.chat_history = Set(session),
                       !.sql_query = Set(<< >>),
                       !.df_results = Set(DataFrame(0))]

\* inputs = {"original_question": ..., "chat_history": st.session_state.messages}
\* chat_history is the session's own message list (a reference, not a copy).
Inputs(question_input, session) ==
    [EmptyState EXCEPT !.original_question = Set(question_input),
                       !.chat_history = Set(session)]

\* What a node hands back to the graph: the state it returns, or an exception.
\* calls lists the external calls the node made, in order.
Return(state, calls) == [raised |-> FALSE, state |-> state, calls |-> calls]
Raise(state, calls) == [raised |-> TRUE, state |-> state, calls |-> calls]

\* -------------------------------------------------------------------- nodes
\* translation, classification: the replies of the two llm.invoke calls
\* (Unset when the call is not made).
router_node(state, translation, classification) ==
    LET question == Val(state.original_question)
        is_arabic == IsArabic(question)
        s1 == [state EXCEPT !.is_arabic = Set(is_arabic)]
        calls1 == IF is_arabic THEN <<"translate">> ELSE << >>
    IN  IF is_arabic /\ ~Val(translation).ok
        THEN Raise(s1, calls1)
        ELSE LET processed_question ==
                     IF is_arabic THEN Strip(Val(translation).content)
                     ELSE question
                 s2 == [s1 EXCEPT !.processed_question = Set(processed_question)]
                 calls2 == Append(calls1, "classify")
             IN  IF ~Val(classification).ok
                 THEN Raise(s2, calls2)
                 ELSE Return([s2 EXCEPT !.classification =
                                  Set(Lower(Strip(Val(classification).content)))],
                             calls2)

\* ValidSql, had the query not been validated at all.
ValidSqlAny(sql) == TRUE

\* not (not sql or "SELECT" not in sql.upper())
ValidSql(sql) == ~(sql = << >> \/ ~Contains(Upper(sql), S_SELECT))

\* The replies portfolio_agent_node asks for, given the ones before.
RunsSql(vn, generated) ==
    vn /\ Val(generated).ok /\ ValidSql(Val(generated).content)
Explains(vn, generated, ran_sql) ==
    /\ RunsSql(vn, generated)
    /\ Val(ran_sql).ok
    /\ Val(ran_sql).content # DfNone
    /\ ~DfEmpty(Val(ran_sql).content)

\* The try block of portfolio_agent_node: it returns, or raises with the
\* state as assigned so far.
\* vn: TRUE when get_vanna_instance() returned an instance, FALSE for None.
portfolio_try(state, vn, generated, ran_sql, explained) ==
    IF ~vn THEN Raise(state, << >>)
    ELSE IF ~Val(generated).ok THEN Raise(state, <<"generate_sql">>)
    ELSE
    LET sql == Val(generated).content
        s1 == [state EXCEPT !.sql_query = Set(sql)]
    IN  IF ~ValidSql(sql)
        THEN Raise(s1, <<"generate_sql">>)
        ELSE IF ~Val(ran_sql).ok
        THEN Raise(s1, <<"generate_sql", "run_sql">>)
        ELSE
        LET df == Val(ran_sql).content
            s2 == [s1 EXCEPT !.df_results = Set(df)]
        IN  IF df # DfNone /\ ~DfEmpty(df)
            THEN IF ~Val(explained).ok
                 THEN Raise(s2, <<"generate_sql", "run_sql",
                                  "generate_explanation">>)
                 ELSE Return([s2 EXCEPT !.final_answer =
                                  Set(Val(explained).content)],
                             <<"generate_sql", "run_sql",
                               "generate_explanation">>)
            ELSE Return([s2 EXCEPT !.final_answer = Set(NO_DATA_ANSWER)],
                        <<"generate_sql", "run_sql">>)

\* portfolio_agent_node, had the except branch answered from the state the
\* node was given, dropping what the try block had assigned.
portfolio_agent_node_rollback(state, vn, generated, ran_sql, explained) ==
    LET r == portfolio_try(state, vn, generated, ran_sql, explained)
    IN  IF r.raised
        THEN Return([state EXCEPT !.final_answer = Set(PORTFOLIO_APOLOGY)],
                    r.calls)
        ELSE r

\* try: ... except Exception: state["final_answer"] = <apology>; return state
portfolio_agent_node(state, vn, generated, ran_sql, explained) ==
    LET r == portfolio_try(state, vn, generated, ran_sql, explained)
    IN  IF r.raised
        THEN Return([r.state EXCEPT !.final_answer = Set(PORTFOLIO_APOLOGY)],
                    r.calls)
        ELSE r

\* response.raise_for_status()
RaisesForStatus(status) == 400 <= status /\ status < 600

internet_agent_node(state, posted) ==
    LET response == Val(posted)
    IN  IF response.neterr \/ RaisesForStatus(response.status)
           \/ ~response.wellformed
        THEN Return([state EXCEPT !.final_answer = Set(INTERNET_APOLOGY)],
                    <<"post">>)
        ELSE Return([state EXCEPT !.final_answer = Set(response.content)],
                    <<"post">>)

smalltalk_agent_node(state, replied) ==
    IF ~Val(replied).ok
    THEN Raise(state, <<"smalltalk">>)
    ELSE Return([state EXCEPT !.final_answer = Set(Val(replied).content)],
                <<"smalltalk">>)

identity_agent_node(state) ==
    Return([state EXCEPT !.final_answer = Set(base_identity)], << >>)

invalid_query_node(state) ==
    Return([state EXCEPT !.final_answer = Set(INVALID_ANSWER)], << >>)

\* Translates, had the test of is_arabic been left out.
TranslatesAnyLanguage(state) == Val(state.final_answer) # ""

\* if state["is_arabic"] and state["final_answer"]:
Translates(state) == Val(state.is_arabic) /\ Val(state.final_answer) # ""

final_translation_node(state, translated) ==
    IF Translates(state)
    THEN IF ~Val(translated).ok
         THEN Raise(state, <<"backtranslate">>)
         ELSE Return([state EXCEPT !.final_answer = Set(Val(translated).content)],
                     <<"backtranslate">>)
    ELSE Return(state, << >>)

\* -------------------------------------------------------------------- graph
\* decide_next_node, had it looked for the label inside the classification.
decide_next_node_substring(state) ==
    LET classification == Val(state.classification)
    IN  IF Contains(classification, S_portfolio) THEN "portfolio_agent"
        ELSE IF Contains(classification, S_general) THEN "internet_agent"
        ELSE IF Contains(classification, S_smalltalk) THEN "smalltalk_agent"
        ELSE IF Contains(classification, S_identity) THEN "identity_agent"
        ELSE "invalid_query_agent"

decide_next_node(state) ==
    LET classification == Val(state.classification)
    IN  IF classification = S_portfolio THEN "portfolio_agent"
        ELSE IF classification = S_general THEN "internet_agent"
        ELSE IF classification = S_smalltalk THEN "smalltalk_agent"
        ELSE IF classification = S_identity THEN "identity_agent"
        ELSE "invalid_query_agent"

AgentNodes ==
    {"portfolio_agent", "internet_agent", "smalltalk_agent", "identity_agent",
     "invalid_query_agent"}

\* builder.add_conditional_edges("router", decide_next_node, {...})
ConditionalEdge(branch) == branch

\* builder.add_edge(<agent node>, "final_translator")
AgentEdge(node) == "final_translator"

\* builder.add_edge("final_translator", END)
FinalEdge == "END"

\* -------------------------------------------------------------------- state
VARIABLES
    vn,         \* module global: TRUE an instance, FALSE None (connect failed)
    messages,   \* st.session_state.messages of each session
    asked,      \* questions submitted so far, over all sessions
    pc,         \* where each session's script run is: "idle", a graph node
                \* (about to start, or between two of its external calls),
                \* "END" (invoke returned) or "raised" (invoke raised)
    state,      \* the AgentState of each session's invoke, as the nodes
                \* that returned have left it
    ran,        \* the nodes each session's invoke has run to their end, in
                \* order
    calls,      \* the external calls each session's invoke has made, in order
    wrote,      \* the agent nodes that assigned final_answer, with the answer
    ext         \* the replies each session's invoke has received, by call

vars == <<vn, messages, asked, pc, state, ran, calls, wrote, ext>>

NoReplies ==
    [translate |-> Unset, classify |-> Unset, generate_sql |-> Unset,
     run_sql |-> Unset, generate_explanation |-> Unset, post |-> Unset,
     smalltalk |-> Unset, backtranslate |-> Unset]

Start ==
    /\ messages = [s \in Sessions |-> << >>]
    /\ asked = 0
    /\ pc = [s \in Sessions |-> "idle"]
    /\ state = [s \in Sessions |-> EmptyState]
    /\ ran = [s \in Sessions |-> << >>]
    /\ calls = [s \in Sessions |-> << >>]
    /\ wrote = [s \in Sessions |-> << >>]
    /\ ext = [s \in Sessions |-> NoReplies]

\* vn = get_vanna_instance(): an instance, or None when the connection failed
Init == vn \in BOOLEAN /\ Start

\* Channels, had every invocation worked on one module-level state.
SharedChannels(s) == 1

\* agent_executor.invoke(inputs) works on the state of its own invocation.
Channels(s) == s

\* The call a node made last, as the one-element list to append; a node comes
\* to its end in the step that receives the reply of its last call.
LastCall(made) == IF made = << >> THEN << >> ELSE << made[Len(made)] >>

\* A node of session s got the reply of `call` and goes on to its next call:
\* e is the replies received so far.  The session stays inside the node, and
\* the other sessions run while it waits in the next call.
Waits(s, call, e) ==
    /\ calls' = [calls EXCEPT ![s] = Append(@, call)]
    /\ ext' = [ext EXCEPT ![s] = e]
    /\ UNCHANGED <<vn, messages, asked, pc, state, ran, wrote>>

\* One node of session s came to its end: its result r, the replies e it
\* received, and the node the graph's edge leads to.
NodeRan(s, node, r, e, next) ==
    /\ pc' = [pc EXCEPT ![s] = IF r.raised THEN "raised" ELSE next]
    /\ state' = [state EXCEPT ![Channels(s)] = IF r.raised THEN @ ELSE r.state]
    /\ ran' = [ran EXCEPT ![s] = Append(@, node)]
    /\ calls' = [calls EXCEPT ![s] = @ \o LastCall(r.calls)]
    /\ wrote' = [wrote EXCEPT ![s] =
           IF node \in AgentNodes /\ ~r.raised /\ IsSet(r.state.final_answer)
           THEN Append(@, [node |-> node, answer |-> Val(r.state.final_answer)])
           ELSE @]
    /\ ext' = [ext EXCEPT ![s] = e]
    /\ UNCHANGED <<vn, messages, asked>>

\* ------------------------------------------------------------- the chat loop
\* if question_input: append the user message and display it, build inputs,
\* call invoke.  The display is outside the try block: when it raises, the
\* script run ends there.
Submit(s, I, limit) ==
    /\ pc[s] = "idle"
    /\ asked < limit
    /\ \E question_input \in I.questions, displayed \in I.displays :
        /\ question_input # << >>
        /\ messages' = [messages EXCEPT ![s] =
               Append(@, [role |-> "user", content |-> question_input])]
        /\ IF displayed
           THEN /\ state' = [state EXCEPT ![Channels(s)] =
                                 Inputs(question_input, s)]
                /\ pc' = [pc EXCEPT ![s] = "router"]
           ELSE UNCHANGED <<state, pc>>
    /\ asked' = asked + 1
    /\ ran' = [ran EXCEPT ![s] = << >>]
    /\ calls' = [calls EXCEPT ![s] = << >>]
    /\ wrote' = [wrote EXCEPT ![s] = << >>]
    /\ ext' = [ext EXCEPT ![s] = NoReplies]
    /\ UNCHANGED vn

\* response_content = {"answer": ..., "sql_query": ..., "dataframe": ...}
\* (.get() of an absent key gives the default; None is << >> for sql_query
\* and DfNone for the data frame)
ResponseContent(final_state) ==
    [answer |-> Get(final_state.final_answer, DEFAULT_ANSWER),
     sql_query |-> final_state.sql_query,
     dataframe |-> Get(final_state.df_results, DfNone)]

\* if response_content["sql_query"]: st.code(...)
DisplaysSql(response_content) ==
    IsSet(response_content.sql_query)
    /\ Val(response_content.sql_query) # << >>

\* except Exception: st.error(...), then append the error message and display
\* it.  st.error comes before the append: when it raises, the script run ends
\* with the history as it was.
ExceptBranch(history, reported) ==
    IF reported
    THEN Append(history, [role |-> "assistant", content |-> CRITICAL_ERROR])
    ELSE history

\* invoke returned: append the assistant message and display it; when the
\* display raises, the except branch runs with the message already appended.
Respond(s, I) ==
    /\ pc[s] = "END"
    /\ \E displayed \in I.displays, reported \in I.displays :
        LET answered == Append(messages[s],
                [role |-> "assistant",
                 content |-> ResponseContent(state[Channels(s)])])
        IN  messages' = [messages EXCEPT ![s] =
                IF displayed THEN answered
                ELSE ExceptBranch(answered, reported)]
    /\ pc' = [pc EXCEPT ![s] = "idle"]
    /\ state' = [state EXCEPT ![Channels(s)] = EmptyState]
    /\ ran' = [ran EXCEPT ![s] = << >>]
    /\ calls' = [calls EXCEPT ![s] = << >>]
    /\ wrote' = [wrote EXCEPT ![s] = << >>]
    /\ ext' = [ext EXCEPT ![s] = NoReplies]
    /\ UNCHANGED <<vn, asked>>

\* invoke raised: the except branch.
Except(s, I) ==
    /\ pc[s] = "raised"
    /\ \E reported \in I.displays :
        messages' = [messages EXCEPT ![s] = ExceptBranch(@, reported)]
    /\ pc' = [pc EXCEPT ![s] = "idle"]
    /\ state' = [state EXCEPT ![Channels(s)] = EmptyState]
    /\ ran' = [ran EXCEPT ![s] = << >>]
    /\ calls' = [calls EXCEPT ![s] = << >>]
    /\ wrote' = [wrote EXCEPT ![s] = << >>]
    /\ ext' = [ext EXCEPT ![s] = NoReplies]
    /\ UNCHANGED <<vn, asked>>

\* ---------------------------------------------------------- the graph's nodes
\* router_node waits in llm.invoke for the translation (Arabic questions)
\* and then in llm.invoke for the classification: one step per reply.
Router(s, I) ==
    /\ pc[s] = "router"
    /\ LET st == state[Channels(s)]
       IN  IF IsArabic(Val(st.original_question)) /\ ~IsSet(ext[s].translate)
           THEN \E translation \in {Set(o) : o \in I.translations} :
                    LET e == [ext[s] EXCEPT !.translate = translation]
                    IN  IF Val(translation).ok
                        THEN Waits(s, "translate", e)
                        ELSE NodeRan(s, "router",
                                     router_node(st, translation, Unset),
                                     e, "raised")
           ELSE \E classification \in {Set(o) : o \in I.classifications} :
                    LET r == router_node(st, ext[s].translate, classification)
                    IN  NodeRan(s, "router", r,
                                [ext[s] EXCEPT !.classify = classification],
                                IF r.raised THEN "raised"
                                ELSE ConditionalEdge(decide_next_node(r.state)))

\* portfolio_agent_node waits in vn.generate_sql, vn.run_sql and
\* vn.generate_explanation, one after the other: one step per reply.
PortfolioAgent(s, I) ==
    /\ pc[s] = "portfolio_agent"
    /\ LET st == state[Channels(s)]
           next == AgentEdge("portfolio_agent")
       IN  IF ~vn
           THEN NodeRan(s, "portfolio_agent",
                        portfolio_agent_node(st, vn, Unset, Unset, Unset),
                        ext[s], next)
           ELSE IF ~IsSet(ext[s].generate_sql)
           THEN \E generated \in {Set(o) : o \in I.sqls} :
                    LET e == [ext[s] EXCEPT !.generate_sql = generated]
                    IN  IF RunsSql(vn, generated)
                        THEN Waits(s, "generate_sql", e)
                        ELSE NodeRan(s, "portfolio_agent",
                                     portfolio_agent_node(st, vn, generated,
                                                          Unset, Unset),
                                     e, next)
           ELSE IF ~IsSet(ext[s].run_sql)
           THEN \E ran_sql \in {Set(o) : o \in I.frames} :
                    LET e == [ext[s] EXCEPT !.run_sql = ran_sql]
                    IN  IF Explains(vn, ext[s].generate_sql, ran_sql)
                        THEN Waits(s, "run_sql", e)
                        ELSE NodeRan(s, "portfolio_agent",
                                     portfolio_agent_node(st, vn,
                                         ext[s].generate_sql, ran_sql, Unset),
                                     e, next)
           ELSE \E explained \in {Set(o) : o \in I.explanations} :
                    NodeRan(s, "portfolio_agent",
                            portfolio_agent_node(st, vn, ext[s].generate_sql,
                                                 ext[s].run_sql, explained),
                            [ext[s] EXCEPT !.generate_explanation = explained],
                            next)

InternetAgent(s, I) ==
    /\ pc[s] = "internet_agent"
    /\ \E posted \in {Set(o) : o \in I.posts} :
        NodeRan(s, "internet_agent",
                internet_agent_node(state[Channels(s)], posted),
                [ext[s] EXCEPT !.post = posted],
                AgentEdge("internet_agent"))

SmalltalkAgent(s, I) ==
    /\ pc[s] = "smalltalk_agent"
    /\ \E replied \in {Set(o) : o \in I.replies} :
        NodeRan(s, "smalltalk_agent",
                smalltalk_agent_node(state[Channels(s)], replied),
                [ext[s] EXCEPT !.smalltalk = replied],
                AgentEdge("smalltalk_agent"))

IdentityAgent(s) ==
    /\ pc[s] = "identity_agent"
    /\ NodeRan(s, "identity_agent", identity_agent_node(state[Channels(s)]),
               ext[s], AgentEdge("identity_agent"))

InvalidQueryAgent(s) ==
    /\ pc[s] = "invalid_query_agent"
    /\ NodeRan(s, "invalid_query_agent", invalid_query_node(state[Channels(s)]),
               ext[s], AgentEdge("invalid_query_agent"))

FinalTranslator(s, I) ==
    /\ pc[s] = "final_translator"
    /\ \E translated \in
            (IF Translates(state[Channels(s)])
             THEN {Set(o) : o \in I.arabic}
             ELSE {Unset}) :
        NodeRan(s, "final_translator",
                final_translation_node(state[Channels(s)], translated),
                [ext[s] EXCEPT !.backtranslate = translated],
                FinalEdge)

\* ------------------------------------------------------------ specifications
Step(s, I, limit) ==
    \/ Submit(s, I, limit)
    \/ Router(s, I)
    \/ PortfolioAgent(s, I)
    \/ InternetAgent(s, I)
    \/ SmalltalkAgent(s, I)
    \/ IdentityAgent(s)
    \/ InvalidQueryAgent(s)
    \/ FinalTranslator(s, I)
    \/ Respond(s, I)
    \/ Except(s, I)

\* One session asks one question; the services give every reply of FullInputs.
Next == Step(1, FullInputs, 1)
Spec == Init /\ [][Next]_vars

\* The sessions ask MaxTurns questions between them, running side by side.
ConcNext == \E s \in Sessions : Step(s, SmallInputs, MaxTurns)
ConcSpec == Init /\ [][ConcNext]_vars

\* ---------------------------------------------------- a turn run on its own
\* The node the graph runs for a branch, with the replies e it is given.
AgentNode(node, st, v, e) ==
    CASE node = "portfolio_agent" ->
            portfolio_agent_node(st, v, e.generate_sql, e.run_sql,
                                 e.generate_explanation)
      [] node = "internet_agent" -> internet_agent_node(st, e.post)
      [] node = "smalltalk_agent" -> smalltalk_agent_node(st, e.smalltalk)
      [] node = "identity_agent" -> identity_agent_node(st)
      [] OTHER -> invalid_query_node(st)

\* agent_executor.invoke(inputs) with nothing else running: router, the branch
\* decide_next_node picks, final_translator; an exception ends the run.
RunAlone(question_input, session, v, e) ==
    LET s0 == Inputs(question_input, session)
        r1 == router_node(s0, e.translate, e.classify)
    IN  IF r1.raised THEN [pc |-> "raised", state |-> s0]
        ELSE
        LET r2 == AgentNode(ConditionalEdge(decide_next_node(r1.state)),
                            r1.state, v, e)
        IN  IF r2.raised THEN [pc |-> "raised", state |-> r1.state]
            ELSE
            LET r3 == final_translation_node(r2.state, e.backtranslate)
            IN  IF r3.raised THEN [pc |-> "raised", state |-> r2.state]
                ELSE [pc |-> FinalEdge, state |-> r3.state]

\* ================================================================== claims
Labels == {S_portfolio, S_general, S_smalltalk, S_identity, S_invalid}

\* the turn of session s is over: invoke has returned or raised
TurnOver(s) == pc[s] \in {"END", "raised"}

\* the agent nodes session s has run in its turn, in order
HandlersRun(s) == SelectSeq(ran[s], LAMBDA n : n \in AgentNodes)

Count(seq, x) == Cardinality({i \in 1..Len(seq) : seq[i] = x})

\* the Handler the specification assigns to each category
HandlerFor(category) ==
    CASE category = S_portfolio -> "portfolio_agent"
      [] category = S_general -> "internet_agent"
      [] category = S_smalltalk -> "smalltalk_agent"
      [] category = S_identity -> "identity_agent"
      [] category = S_invalid -> "invalid_query_agent"

\* C1: running the graph never raises to the caller: no turn ends in an
\* exception, and a turn that has ended carries a final_answer.
C1_TurnNeverRaises ==
    \A s \in Sessions :
        /\ pc[s] # "raised"
        /\ pc[s] = "END" => IsSet(state[s].final_answer)

\* C2: in a turn whose category is one of the five labels, once the turn is
\* over exactly one Handler has run, the one mapped to the category, and
\* exactly one Handler, that one, has written final_answer.
C2_OneHandlerRunsAndWrites ==
    \A s \in Sessions :
        (/\ TurnOver(s)
         /\ IsSet(state[s].classification)
         /\ Val(state[s].classification) \in Labels)
        => /\ HandlersRun(s) = <<HandlerFor(Val(state[s].classification))>>
           /\ Len(wrote[s]) = 1
           /\ wrote[s][1].node = HandlerFor(Val(state[s].classification))

\* C3: a classification that is none of the five labels is handled as invalid:
\* the only Handler that runs is invalid_query_agent, the answer it writes is
\* the fixed refusal, and no other branch is ever selected.
C3_UnrecognizedIsInvalid ==
    \A s \in Sessions :
        (IsSet(state[s].classification)
         /\ Val(state[s].classification) \notin Labels)
        => /\ pc[s] \in {"invalid_query_agent", "final_translator", "END",
                         "raised"}
           /\ \A i \in 1..Len(ran[s]) :
                  ran[s][i] \in AgentNodes => ran[s][i] = "invalid_query_agent"
           /\ pc[s] # "invalid_query_agent"
              => wrote[s] = << [node |-> "invalid_query_agent",
                                answer |-> INVALID_ANSWER] >>
           /\ pc[s] = "final_translator"
              => state[s].final_answer = Set(INVALID_ANSWER)

C3_Witness ==
    /\ pc[1] = "END"
    /\ IsSet(state[1].classification)
    /\ Val(state[1].classification) \notin Labels
    /\ Val(state[1].classification) # << >>
    /\ ran[1] = <<"router", "invalid_query_agent", "final_translator">>

\* C4: in every turn in which a Handler executed, once the turn is over the
\* Finalizer has run exactly once, right after the Handler wrote final_answer,
\* and the back-translation call was made at most once.
C4_FinalizerRunsExactlyOnce ==
    \A s \in Sessions :
        (TurnOver(s) /\ HandlersRun(s) # << >>)
        => /\ Count(ran[s], "final_translator") = 1
           /\ Len(ran[s]) = 3
           /\ ran[s][2] \in AgentNodes
           /\ ran[s][3] = "final_translator"
           /\ Len(wrote[s]) = 1
           /\ Count(calls[s], "backtranslate") <= 1

\* C5: when is_arabic is false the Finalizer step changes no key of the state
\* (final_answer stays the one the Handler wrote), makes no external call, and
\* hands the turn to END.
C5_FinalizerNoOp ==
    [][\A s \in Sessions :
          (/\ pc[s] = "final_translator"
           /\ pc'[s] # "final_translator"
           /\ ~Val(state[s].is_arabic))
          => /\ state'[s] = state[s]
             /\ state'[s].final_answer = Set(wrote[s][1].answer)
             /\ calls'[s] = calls[s]
             /\ ext'[s] = ext[s]
             /\ pc'[s] = "END"]_vars

C5_Witness ==
    /\ pc[1] = "END"
    /\ ~Val(state[1].is_arabic)
    /\ ran[1][3] = "final_translator"
    /\ Val(state[1].final_answer) # ""

\* C6: when the translation call or the classification call of the Classifier
\* fails, the turn does not crash: the invalid branch is taken.
ClassifierCallFailed(s) ==
    \/ IsSet(ext[s].translate) /\ ~Val(ext[s].translate).ok
    \/ IsSet(ext[s].classify) /\ ~Val(ext[s].classify).ok

C6_ClassifierFailureIsInvalid ==
    \A s \in Sessions :
        ClassifierCallFailed(s)
        => /\ pc[s] \in {"invalid_query_agent", "final_translator", "END"}
           /\ pc[s] # "invalid_query_agent"
              => wrote[s] = << [node |-> "invalid_query_agent",
                                answer |-> INVALID_ANSWER] >>

\* C7: every Handler is total: a Handler that has run has written final_answer
\* and has not ended the turn with an exception.
C7_HandlersAreTotal ==
    \A s \in Sessions :
        HandlersRun(s) # << >>
        => /\ Len(wrote[s]) = 1
           /\ IsSet(state[s].final_answer)
           /\ ~(pc[s] = "raised" /\ ran[s][Len(ran[s])] \in AgentNodes)

\* C8: sql_query and df_results are absent from the state (not present with an
\* empty value) unless portfolio_agent has run in the turn.
C8_QueryAndDataOnlyFromPortfolio ==
    \A s \in Sessions :
        Count(ran[s], "portfolio_agent") = 0
        => /\ state[s].sql_query = Unset
           /\ state[s].df_results = Unset
           /\ ResponseContent(state[s]).sql_query = Unset
           /\ ResponseContent(state[s]).dataframe = DfNone

C8_Witness ==
    /\ pc[1] = "END"
    /\ ran[1] = <<"router", "internet_agent", "final_translator">>
    /\ state[1].sql_query = Unset
    /\ state[1].df_results = Unset

\* C9: with several turns in flight, each turn that is over has the outcome
\* and the state it has when run on its own with the replies it received.
QuestionAsked(s) == messages[s][Len(messages[s])].content

C9_TurnsAreIndependent ==
    \A s \in Sessions :
        TurnOver(s)
        => LET alone == RunAlone(QuestionAsked(s), s, vn, ext[s])
           IN  /\ pc[s] = alone.pc
               /\ state[s] = alone.state

C9_Witness ==
    /\ pc[1] = "END"
    /\ pc[2] = "END"
    /\ state[1].classification # state[2].classification
    /\ state[1].final_answer # state[2].final_answer

\* C10: a generated query that is empty or write/DDL-shaped (a write statement
\* with a read sub-clause included) is never executed, and the answer is the
\* portfolio apology.
StartsWith(s, prefix) ==
    Len(s) >= Len(prefix) /\ SubSeq(s, 1, Len(prefix)) = prefix

WriteKeywords ==
    { <<73, 78, 83, 69, 82, 84>>,       \* "INSERT"
      <<85, 80, 68, 65, 84, 69>>,       \* "UPDATE"
      <<68, 69, 76, 69, 84, 69>>,       \* "DELETE"
      <<68, 82, 79, 80>>,               \* "DROP"
      <<67, 82, 69, 65, 84, 69>>,       \* "CREATE"
      <<65, 76, 84, 69, 82>> }          \* "ALTER"

WriteShaped(sql) == \E k \in WriteKeywords : StartsWith(Upper(Strip(sql)), k)

C10_OnlyReadQueriesRun ==
    \A s \in Sessions :
        LET generated == ext[s].generate_sql
        IN  (/\ IsSet(generated)
             /\ Val(generated).ok
             /\ (Val(generated).content = << >>
                 \/ WriteShaped(Val(generated).content)))
            => /\ Count(calls[s], "run_sql") = 0
               /\ wrote[s] = << [node |-> "portfolio_agent",
                                 answer |-> PORTFOLIO_APOLOGY] >>

\* the turn of session s has left the agent node without an exception of the
\* node itself: it waits for the Finalizer, has ended, or the Finalizer raised
PastHandler(s) ==
    \/ pc[s] \in {"final_translator", "END"}
    \/ pc[s] = "raised" /\ ran[s][Len(ran[s])] = "final_translator"

\* C11: a failure at any step of the StructuredDataHandler (no service, query
\* generation fails, query rejected, execution fails, explanation fails) is
\* caught inside the Handler: it writes the portfolio apology, the turn goes
\* on to the Finalizer, and no exception escapes the turn.
PortfolioStepFailed(s) ==
    \/ ~vn
    \/ ~Val(ext[s].generate_sql).ok
    \/ Count(calls[s], "run_sql") = 0
    \/ ~Val(ext[s].run_sql).ok
    \/ IsSet(ext[s].generate_explanation)
       /\ ~Val(ext[s].generate_explanation).ok

C11_PortfolioFailureIsCaught ==
    \A s \in Sessions :
        (Count(ran[s], "portfolio_agent") = 1 /\ PortfolioStepFailed(s))
        => /\ wrote[s] = << [node |-> "portfolio_agent",
                             answer |-> PORTFOLIO_APOLOGY] >>
           /\ pc[s] \in {"final_translator", "END"}
           /\ pc[s] = "final_translator"
              => state[s].final_answer = Set(PORTFOLIO_APOLOGY)

\* C12: after a valid query whose execution succeeded, an empty or absent
\* result gives the "no data" answer without an explanation call; a non-empty
\* result makes exactly one explanation call, and when it returns the answer
\* is the explanation, with sql_query and df_results both in the state.
C12_ResultDecidesAnswer ==
    \A s \in Sessions :
        (/\ Count(ran[s], "portfolio_agent") = 1
         /\ IsSet(ext[s].run_sql)
         /\ Val(ext[s].run_sql).ok)
        => LET df == Val(ext[s].run_sql).content
               explained == ext[s].generate_explanation
           IN  IF df.kind = "None" \/ df.nrows = 0
               THEN /\ Count(calls[s], "generate_explanation") = 0
                    /\ wrote[s] = << [node |-> "portfolio_agent",
                                      answer |-> NO_DATA_ANSWER] >>
               ELSE /\ Count(calls[s], "generate_explanation") = 1
                    /\ IsSet(explained)
                    /\ Val(explained).ok
                       => /\ wrote[s] = << [node |-> "portfolio_agent",
                                            answer |-> Val(explained).content] >>
                          /\ state[s].sql_query =
                                 Set(Val(ext[s].generate_sql).content)
                          /\ state[s].df_results = Set(df)

C12_Witness ==
    /\ pc[1] = "END"
    /\ ~Val(state[1].is_arabic)
    /\ IsSet(ext[1].generate_explanation)
    /\ Val(ext[1].generate_explanation).ok
    /\ state[1].final_answer = Set(Val(ext[1].generate_explanation).content)
    /\ IsSet(state[1].sql_query)
    /\ IsSet(state[1].df_results)

\* C13: the WebSearchHandler answers a network error, a non-success status
\* and a malformed body with the same apology and hands the turn to the
\* Finalizer; only a success response with the expected body sets the answer
\* to the one returned.
HttpSuccess(response) ==
    /\ ~response.neterr
    /\ 200 <= response.status /\ response.status < 300
    /\ response.wellformed

C13_WebFailuresAlike ==
    \A s \in Sessions :
        Count(ran[s], "internet_agent") = 1
        => /\ wrote[s] =
                << [node |-> "internet_agent",
                    answer |-> IF HttpSuccess(Val(ext[s].post))
                               THEN Val(ext[s].post).content
                               ELSE INTERNET_APOLOGY] >>
           /\ PastHandler(s)

\* C14: classification is assigned exactly once in a turn, by the router,
\* before any agent node runs: an agent node or the Finalizer never runs with
\* classification absent, their steps leave classification,
\* original_question and is_arabic as the router left them, and a turn that
\* is over has classification assigned.
C14_CategorySetOnceByClassifier ==
    [][\A s \in Sessions :
          /\ pc[s] \in AgentNodes \cup {"final_translator"}
             => /\ IsSet(state[s].classification)
                /\ state'[s].classification = state[s].classification
                /\ state'[s].original_question = state[s].original_question
                /\ state'[s].is_arabic = state[s].is_arabic
          /\ (IsSet(state'[s].classification)
              /\ state'[s].classification # state[s].classification)
             => /\ pc[s] = "router"
                /\ state[s].classification = Unset
          /\ pc'[s] \in {"END", "raised"}
             => IsSet(state'[s].classification)]_vars

\* C15: a classification reply that differs from one of the five labels only
\* in letter case or in leading/trailing whitespace is routed to the Handler
\* of that label.
SameLetter(a, b) ==
    \/ a = b
    \/ 65 <= a /\ a <= 90 /\ b = a + 32
    \/ 65 <= b /\ b <= 90 /\ a = b + 32

Blank == {9, 10, 13, 32}

PaddedLabel(raw, label) ==
    \E lead \in 0..Len(raw) :
        /\ lead + Len(label) <= Len(raw)
        /\ \A i \in 1..Len(raw) :
              IF lead < i /\ i <= lead + Len(label)
              THEN SameLetter(raw[i], label[i - lead])
              ELSE raw[i] \in Blank

C15_NormalizedLabelRoutes ==
    \A s \in Sessions :
        (IsSet(ext[s].classify) /\ Val(ext[s].classify).ok)
        => \A label \in Labels :
              PaddedLabel(Val(ext[s].classify).content, label)
              => /\ state[s].classification = Set(label)
                 /\ pc[s] \in AgentNodes => pc[s] = HandlerFor(label)
                 /\ pc[s] \notin AgentNodes
                    => HandlersRun(s) = <<HandlerFor(label)>>

C15_Witness ==
    /\ IsSet(ext[1].classify)
    /\ Val(ext[1].classify).content =
           <<80, 79, 82, 84, 70, 79, 76, 73, 79, 32>>
    /\ pc[1] = "END"
    /\ ran[1][2] = "portfolio_agent"

\* C16: is_arabic is true exactly when the question has a character in
\* U+0600..U+06FF; when false no translation call is made and
\* processed_question is the question itself (so a smalltalk turn ends with
\* the Handler's answer untouched by the Finalizer); when true the translation
\* call is made exactly once, before the classification call.
HasArabicCharacter(question) ==
    \E i \in 1..Len(question) : question[i] \in 1536..1791

C16_FlagFollowsScript ==
    \A s \in Sessions :
        ran[s] # << >>
        => LET question == Val(state[s].original_question)
               flag == HasArabicCharacter(question)
           IN  /\ IsSet(state[s].is_arabic) => Val(state[s].is_arabic) = flag
               /\ ~flag
                  => /\ Count(calls[s], "translate") = 0
                     /\ IsSet(state[s].processed_question)
                        => Val(state[s].processed_question) = question
               /\ flag
                  => /\ Count(calls[s], "translate") = 1
                     /\ calls[s][1] = "translate"
                     /\ Len(calls[s]) >= 2 => calls[s][2] = "classify"
               /\ (~flag /\ pc[s] = "END"
                   /\ state[s].classification = Set(S_smalltalk))
                  => /\ ran[s] = <<"router", "smalltalk_agent",
                                   "final_translator">>
                     /\ Count(calls[s], "backtranslate") = 0
                     /\ state[s].final_answer = Set(wrote[s][1].answer)

C16_Witness ==
    /\ pc[1] = "END"
    /\ Val(state[1].original_question) = <<104, 105, 32, 1536>>
    /\ Val(state[1].is_arabic)
    /\ calls[1][1] = "translate"
    /\ calls[1][2] = "classify"

\* C17: df_results in the state implies sql_query in the state, holding a
\* non-empty query that contains SELECT in some letter case and whose
\* execution returned; it is never there after a rejected query or a failed
\* query generation.
\* Letter case is compared by Unicode case folding.  FoldSpecial lists the
\* code points outside ASCII whose folding holds a letter of "select"; no
\* other folding does.
FoldSpecial ==
    { <<223, <<115, 115>>>>, <<383, <<115>>>>, <<7831, <<116, 776>>>>,
      <<7838, <<115, 115>>>>, <<64258, <<102, 108>>>>,
      <<64260, <<102, 102, 108>>>>, <<64261, <<115, 116>>>>,
      <<64262, <<115, 116>>>> }

RECURSIVE CaseFolded(_)
CaseFolded(s) ==
    IF s = << >> THEN << >>
    ELSE LET c == Head(s)
         IN  (IF 65 <= c /\ c <= 90 THEN << c + 32 >>
              ELSE IF \E e \in FoldSpecial : e[1] = c
                   THEN (CHOOSE e \in FoldSpecial : e[1] = c)[2]
                   ELSE << c >>) \o CaseFolded(Tail(s))

ContainsSelectAnyCase(sql) ==
    \E i \in 0..(Len(CaseFolded(sql)) - 6) :
        SubSeq(CaseFolded(sql), i + 1, i + 6) = <<115, 101, 108, 101, 99, 116>>

C17_DataImpliesValidQuery ==
    \A s \in Sessions :
        IsSet(state[s].df_results)
        => /\ IsSet(state[s].sql_query)
           /\ Val(state[s].sql_query) # << >>
           /\ ContainsSelectAnyCase(Val(state[s].sql_query))
           /\ IsSet(ext[s].generate_sql)
           /\ Val(ext[s].generate_sql).ok
           /\ Val(ext[s].generate_sql).content = Val(state[s].sql_query)
           /\ IsSet(ext[s].run_sql)
           /\ Val(ext[s].run_sql).ok
           /\ Val(ext[s].run_sql).content = Val(state[s].df_results)

C17_Witness ==
    /\ pc[1] = "END"
    /\ IsSet(state[1].df_results)
    /\ Val(state[1].sql_query) = <<115, 101, 108, 101, 99, 116, 32, 49>>

\* C18: whenever query generation returned, the state keeps sql_query equal
\* to the returned string, also when the query was rejected or its execution
\* failed and the answer is the apology; the caller's response_content
\* carries it and the chat loop displays it when it is non-empty.
C18_RejectedQueryIsKept ==
    \A s \in Sessions :
        (/\ Count(ran[s], "portfolio_agent") = 1
         /\ IsSet(ext[s].generate_sql)
         /\ Val(ext[s].generate_sql).ok)
        => LET sql == Val(ext[s].generate_sql).content
           IN  /\ state[s].sql_query = Set(sql)
               /\ ResponseContent(state[s]).sql_query = Set(sql)
               /\ sql # << >> => DisplaysSql(ResponseContent(state[s]))

C18_Witness ==
    /\ pc[1] = "END"
    /\ wrote[1] = << [node |-> "portfolio_agent",
                      answer |-> PORTFOLIO_APOLOGY] >>
    /\ Count(calls[1], "run_sql") = 0
    /\ state[1].sql_query =
           Set(<<68, 82, 79, 80, 32, 84, 65, 66, 76, 69, 32, 116>>)
    /\ DisplaysSql(ResponseContent(state[1]))

\* C19: the session history strictly alternates user and assistant messages,
\* starting with a user message.
C19_HistoryAlternates ==
    \A s \in Sessions :
        \A i \in 1..Len(messages[s]) :
            messages[s][i].role = IF i % 2 = 1 THEN "user" ELSE "assistant"

====
